---------------------------- MODULE Spec2Model ----------------------------
(***************************************************************************)
(* Model of the Renshuu study-data extraction pipeline of dokusho-crawler: *)
(*   modules/renshuu_extraction.py  extract_user_profile,                  *)
(*                                  extract_study_terms and its helpers    *)
(*   main.py                        extract_user_learning_data, main       *)
(*                                                                         *)
(* Python values are modelled as follows.                                  *)
(*   dict        a TLA+ record/function; `k in d` is k \in DOMAIN d        *)
(*   list        a sequence                                                *)
(*   str         a string atom, or a sequence of characters where the code *)
(*               looks inside the string (credentials, mastery values)     *)
(*   None        the record NoneValue                                      *)
(*   HTTP reply  [err, status, body]: err = TRUE when requests.get raised  *)
(*               (timeout, connection error); body is a tagged JSON value  *)
(*   exception   the handler that catches it is part of the same action    *)
(***************************************************************************)
EXTENDS Naturals, Sequences, FiniteSets, TLC

VARIABLES
    api_key,            \* the bearer credential, a sequence of characters
    service,            \* what the remote service holds: its schedules and their pages
    pc,                 \* position of the running function
    schedules,          \* extract_study_terms: the parsed schedule list
    idx,                \* extract_study_terms: position of `for schedule in schedules`
    schedule_type,      \* _extract_terms_from_schedule: local schedule_type
    all_terms,          \* _extract_terms_from_schedule: local all_terms
    total_pages,        \* _extract_terms_from_schedule: local total_pages
    page,               \* _extract_terms_from_schedule: next value of `page` in range(2, total_pages + 1)
    vocabulary_terms,   \* user_profile.vocabulary_terms
    kanji_terms,        \* user_profile.kanji_terms
    grammar_terms,      \* user_profile.grammar_terms
    user_profile,       \* id, real_name and level_progress_percs of the UserProfile, or NoneValue
    result,             \* what the function returned: "pending", "None", "profile"
    http_log,           \* every HTTP request issued so far, in order, with the kind of its reply
    returned,           \* every (schedule_type, all_terms) _extract_terms_from_schedule returned
    learning            \* what extract_user_learning_data returned

vars == << api_key, service, pc, schedules, idx, schedule_type, all_terms,
           total_pages, page, vocabulary_terms, kanji_terms, grammar_terms,
           user_profile, result, http_log, returned, learning >>

\* groups of variables, for the UNCHANGED clauses
inputs == << api_key, service >>
loop_vars == << schedules, idx >>
locals == << schedule_type, all_terms, total_pages, page >>
term_lists == << vocabulary_terms, kanji_terms, grammar_terms >>

---------------------------------------------------------------------------
(* Bounds of the model. *)

MaxSchedules == 2       \* schedules the remote service holds
MaxKeyLen == 1          \* characters of a credential in the extraction runs
MaxProfileKeyLen == 3   \* characters of a credential given to extract_user_profile
MaxVocab == 3           \* vocabulary terms given to extract_user_learning_data

---------------------------------------------------------------------------
(* Python helpers. *)

\* dict.get(key, default)
Get(d, k, default) == IF k \in DOMAIN d THEN d[k] ELSE default

NoneValue == [cls |-> "None"]

\* the default {} of user_data: a mapping without keys
EmptyDict == [t |-> "dict", d |-> << >>]

RECURSIVE Concat(_)
\* the concatenation of a sequence of sequences
Concat(ss) == IF ss = << >> THEN << >> ELSE Head(ss) \o Concat(Tail(ss))

\* A field of a pydantic model declared Dict[str, Any] accepts a mapping only.
IsDict(v) == v.t = "dict"

---------------------------------------------------------------------------
(* Term models and their constructors.  Of the optional fields only the    *)
(* ones some code path reads are kept (the marker fields, user_data).      *)

_create_vocabulary_term(term_data) ==
    LET ud == Get(term_data, "user_data", EmptyDict)
    IN  IF IsDict(ud)
        THEN [cls |-> "VocabularyTerm",
              id |-> Get(term_data, "id", ""),
              kanji_full |-> Get(term_data, "kanji_full", ""),
              hiragana_full |-> Get(term_data, "hiragana_full", ""),
              user_data |-> ud]
        ELSE NoneValue      \* ValidationError caught: return None

_create_kanji_term(term_data) ==
    LET ud == Get(term_data, "user_data", EmptyDict)
    IN  IF IsDict(ud)
        THEN [cls |-> "KanjiTerm",
              id |-> Get(term_data, "id", ""),
              kanji |-> Get(term_data, "kanji", ""),
              onyomi |-> Get(term_data, "onyomi", ""),
              user_data |-> ud]
        ELSE NoneValue

_create_grammar_term(term_data) ==
    LET ud == Get(term_data, "user_data", EmptyDict)
    IN  IF IsDict(ud)
        THEN [cls |-> "GrammarTerm",
              id |-> Get(term_data, "id", ""),
              title_japanese |-> Get(term_data, "title_japanese", ""),
              url |-> Get(term_data, "url", ""),
              user_data |-> ud]
        ELSE NoneValue

\* `if term:` a pydantic model instance is truthy, None is not
Truthy(term) == term # NoneValue

_detect_schedule_type_default_vocabulary(terms) ==
    IF terms = << >> THEN "unknown"
    ELSE IF "kanji" \in DOMAIN terms[1] /\ "onyomi" \in DOMAIN terms[1] THEN "kanji"
    ELSE IF "title_japanese" \in DOMAIN terms[1] /\ "url" \in DOMAIN terms[1] THEN "grammar"
    ELSE "vocabulary"

_detect_schedule_type(terms) ==
    IF terms = << >> THEN "unknown"
    ELSE LET first_term == terms[1]
         IN  IF "kanji" \in DOMAIN first_term /\ "onyomi" \in DOMAIN first_term
                 THEN "kanji"
             ELSE IF "kanji_full" \in DOMAIN first_term
                     /\ "hiragana_full" \in DOMAIN first_term
                 THEN "vocabulary"
             ELSE IF "title_japanese" \in DOMAIN first_term
                     /\ "url" \in DOMAIN first_term
                 THEN "grammar"
             ELSE "unknown"

\* the body of `for term_data in terms_data` for one record: << >> when the
\* record adds nothing, << term >> when it is appended
ProcessOne(schedule_ty, term_data) ==
    LET term == IF schedule_ty = "vocabulary" THEN _create_vocabulary_term(term_data)
                ELSE IF schedule_ty = "kanji" THEN _create_kanji_term(term_data)
                ELSE IF schedule_ty = "grammar" THEN _create_grammar_term(term_data)
                ELSE NoneValue      \* unknown type: `continue`
    IN  IF Truthy(term) THEN << term >> ELSE << >>

RECURSIVE UntilFirstFailure(_, _)
UntilFirstFailure(ty, terms_data) ==
    IF terms_data = << >> \/ ProcessOne(ty, Head(terms_data)) = << >> THEN << >>
    ELSE ProcessOne(ty, Head(terms_data)) \o UntilFirstFailure(ty, Tail(terms_data))

_process_terms_from_response_abort(terms_data) ==
    [type |-> _detect_schedule_type(terms_data),
     terms |-> UntilFirstFailure(_detect_schedule_type(terms_data), terms_data)]

_process_terms_from_response(terms_data) ==
    LET ty == _detect_schedule_type(terms_data)
    IN  [type |-> ty,
         terms |-> Concat([k \in 1..Len(terms_data) |-> ProcessOne(ty, terms_data[k])])]

---------------------------------------------------------------------------
(* The remote service.  Raw term records are dicts; only the fields the    *)
(* code reads are given.  A schedule of the service is a descriptor and    *)
(* the pages of its term list.                                             *)

UserData(m) == [t |-> "dict", d |-> [mastery_avg_perc |-> m]]

V1 == [id |-> "v1", kanji_full |-> "kf1", hiragana_full |-> "hf1"]
V2 == [id |-> "v2", kanji_full |-> "kf2", hiragana_full |-> "hf2"]
V3 == [id |-> "v3", kanji_full |-> "kf3", hiragana_full |-> "hf3"]
K1 == [id |-> "k1", kanji |-> "kj1", onyomi |-> "on1"]
G1 == [id |-> "g1", title_japanese |-> "tj1", url |-> "url1"]
\* a record with none of the marker field pairs
U1 == [id |-> "u1", kanji |-> "kj9"]
\* records without an id
VNoId == [kanji_full |-> "kf0", hiragana_full |-> "hf0"]
KNoId == [kanji |-> "kj0", onyomi |-> "on0"]
GNoId == [title_japanese |-> "tj0", url |-> "url0"]
\* a record whose user_data is not a mapping: the term constructor raises
VBad == [id |-> "vb", kanji_full |-> "kfb", hiragana_full |-> "hfb",
         user_data |-> [t |-> "str"]]

\* The term lists a schedule may hold, page by page.
PageCatalog ==
    { << <<V1, V2>>, <<V3>> >>,          \* two pages of vocabulary
      << <<V1>>, <<V2>>, <<V3>> >>,      \* three pages of vocabulary
      << <<V1>>, <<K1>> >>,              \* page 2 starts with a kanji-shaped record
      << <<K1, V1>> >>,                  \* record 1 kanji-shaped, record 2 vocabulary-shaped
      << << >>, <<V1>> >>,               \* page 1 holds no record
      << <<U1>> >>,                      \* no marker fields
      << <<U1>>, <<V1>> >>,              \* no marker fields on page 1, vocabulary on page 2
      << <<VNoId, V1>> >>,
      << <<KNoId, K1>>, <<GNoId>> >>,
      << <<GNoId, G1>> >>,
      << <<V1, VBad, V2>> >>,
      << <<V1>>, <<VBad, V2>> >> }

ScheduleIds == << "s1", "s2", "s3", "s4" >>

\* the k-th schedule of the service: its descriptor (with or without id)
\* and its pages
ServiceSchedules(k) ==
    { [desc |-> [id |-> ScheduleIds[k], name |-> "n"], pages |-> ps] : ps \in PageCatalog }
    \cup { [desc |-> [name |-> "n"], pages |-> << <<V1>> >>] }

RECURSIVE Services(_)
\* every service content of exactly n schedules
Services(n) ==
    IF n = 0 THEN { << >> }
    ELSE { Append(s, e) : s \in Services(n - 1), e \in ServiceSchedules(n) }

AllServices == UNION { Services(n) : n \in 0..MaxSchedules }

(* HTTP replies.  body is the value of response.json(): invalid (json()   *)
(* raises ValueError), null (a JSON scalar), array, or object.            *)

StatusOK == 200

Reply(status, body) == [err |-> FALSE, status |-> status, body |-> body]
NetworkError == [err |-> TRUE, status |-> 0, body |-> [json |-> "invalid"]]
Object(obj) == [json |-> "object", obj |-> obj]

\* what the service may answer to a term-list request for a page holding
\* `terms`, page number pg of total
TermListModes ==
    { "neterr", "http500", "badjson", "null", "array", "other", "flat",
      "contents", "contents_nometa", "contents_nopg" }

TermListReply(mode, terms, pg, total) ==
    CASE mode = "neterr" -> NetworkError
      [] mode = "http500" -> Reply(500, [json |-> "invalid"])
      [] mode = "badjson" -> Reply(StatusOK, [json |-> "invalid"])
      [] mode = "null" -> Reply(StatusOK, [json |-> "null"])
      [] mode = "array" -> Reply(StatusOK, [json |-> "array"])
      [] mode = "other" -> Reply(StatusOK, Object([error |-> "x"]))
      [] mode = "flat" -> Reply(StatusOK, Object([terms |-> terms]))
      [] mode = "contents" ->
            Reply(StatusOK, Object([contents |-> [terms |-> terms, pg |-> pg, total_pg |-> total]]))
      [] mode = "contents_nometa" ->
            Reply(StatusOK, Object([contents |-> [terms |-> terms]]))
      [] mode = "contents_nopg" ->
            Reply(StatusOK, Object([contents |-> [terms |-> terms, total_pg |-> total]]))

ScheduleListModes ==
    { "neterr", "http401", "http500", "badjson", "null", "bare", "schedules",
      "data", "other" }

ScheduleListReply(mode, descs) ==
    CASE mode = "neterr" -> NetworkError
      [] mode = "http401" -> Reply(401, [json |-> "invalid"])
      [] mode = "http500" -> Reply(500, [json |-> "invalid"])
      [] mode = "badjson" -> Reply(StatusOK, [json |-> "invalid"])
      [] mode = "null" -> Reply(StatusOK, [json |-> "null"])
      [] mode = "bare" -> Reply(StatusOK, [json |-> "array", items |-> descs])
      [] mode = "schedules" -> Reply(StatusOK, Object([schedules |-> descs]))
      [] mode = "data" -> Reply(StatusOK, Object([data |-> descs]))
      [] mode = "other" -> Reply(StatusOK, Object([error |-> "x"]))

---------------------------------------------------------------------------
(* Strings the code looks inside: sequences of characters. *)

RECURSIVE Strings(_, _)
\* the strings over an alphabet of length at most n
Strings(chars, n) ==
    IF n = 0 THEN { << >> }
    ELSE LET shorter == Strings(chars, n - 1)
         IN  shorter \cup { Append(s, c) : s \in shorter, c \in chars }

Whitespace == { " " }

RECURSIVE LStrip(_)
LStrip(s) == IF s # << >> /\ Head(s) \in Whitespace THEN LStrip(Tail(s)) ELSE s

RECURSIVE RStrip(_)
RStrip(s) ==
    IF s # << >> /\ s[Len(s)] \in Whitespace THEN RStrip(SubSeq(s, 1, Len(s) - 1)) ELSE s

\* str.strip()
Strip(s) == RStrip(LStrip(s))

KeyChars == { " ", "k" }

---------------------------------------------------------------------------
(* extract_study_terms and its helpers.                                    *)

\* `key in data` for a JSON object; for an array of non-strings it is False
InBody(body, k) == body.json = "object" /\ k \in DOMAIN body.obj

\* what _extract_terms_from_schedule does with the reply to its first
\* request, up to the loop over the remaining pages:
\*   out = "raise"        an exception leaves the function
\*   out = "return_list"  `return all_terms`: a bare list, not a pair
\*   out = "return"       `return schedule_type, all_terms`
\*   out = "pages"        pages 2..total_pages are to be fetched
FirstPage(reply) ==
    LET Out(o, ty, ts, n) == [out |-> o, type |-> ty, terms |-> ts, total_pages |-> n]
        body == reply.body
    IN  IF reply.err THEN Out("raise", "unknown", << >>, 0)
        ELSE IF reply.status # StatusOK THEN Out("return_list", "unknown", << >>, 0)
        ELSE IF body.json = "invalid" THEN Out("return", "unknown", << >>, 0)
        ELSE IF body.json = "null" THEN Out("raise", "unknown", << >>, 0)
        ELSE IF InBody(body, "contents") /\ "terms" \in DOMAIN body.obj.contents
            THEN LET pagination_info == body.obj.contents
                     p == _process_terms_from_response(pagination_info.terms)
                 IN  IF "total_pg" \in DOMAIN pagination_info
                     THEN IF "pg" \notin DOMAIN pagination_info
                          THEN Out("raise", "unknown", << >>, 0)
                          ELSE IF pagination_info.total_pg > 1
                               THEN Out("pages", p.type, p.terms, pagination_info.total_pg)
                               ELSE Out("return", p.type, p.terms, pagination_info.total_pg)
                     ELSE Out("return", p.type, p.terms, 0)
        ELSE IF InBody(body, "terms")
            THEN LET p == _process_terms_from_response(body.obj.terms)
                 IN  Out("return", p.type, p.terms, 0)
        ELSE Out("return", "unknown", << >>, 0)

\* the result of _fetch_terms_from_page for a reply
_fetch_terms_from_page(reply) ==
    LET body == reply.body
    IN  IF reply.err THEN [out |-> "raise", terms |-> << >>]
        ELSE IF reply.status # StatusOK THEN [out |-> "return", terms |-> << >>]
        ELSE IF body.json = "invalid" THEN [out |-> "return", terms |-> << >>]
        ELSE IF body.json = "null" THEN [out |-> "raise", terms |-> << >>]
        ELSE IF InBody(body, "contents") /\ "terms" \in DOMAIN body.obj.contents
            THEN [out |-> "return",
                  terms |-> _process_terms_from_response(body.obj.contents.terms).terms]
        ELSE [out |-> "return", terms |-> << >>]

_parse_schedules_response(reply) ==
    LET body == reply.body
    IN  IF body.json = "invalid" THEN << >>
        ELSE IF body.json = "array" THEN body.items
        ELSE IF body.json = "object"
            THEN IF "schedules" \in DOMAIN body.obj THEN body.obj.schedules
                 ELSE IF "data" \in DOMAIN body.obj THEN body.obj.data
                 ELSE << >>
        ELSE << >>

SchedulesStatusFailed_only401(reply) == reply.status = 401

\* `if schedules_response.status_code != 200`
SchedulesStatusFailed(reply) == reply.status # StatusOK

HasId_always(schedule) == TRUE

\* `if not schedule_id`
HasId(schedule) == Get(schedule, "id", "") # ""

\* the pages the service holds for the i-th schedule, their number (the
\* total_pg it reports) and the records of page k
PagesOf(i) == service[i].pages
TotalPg(i) == Len(PagesOf(i))
PageTerms(i, k) == IF k \in 1..TotalPg(i) THEN PagesOf(i)[k] ELSE << >>

Request(endpoint, i, k, mode) == [endpoint |-> endpoint, sched |-> i, page |-> k, mode |-> mode]

ExtendProfile_prepend(ty, terms) ==
    /\ vocabulary_terms' = IF ty = "vocabulary" THEN terms \o vocabulary_terms
                           ELSE vocabulary_terms
    /\ kanji_terms' = IF ty = "kanji" THEN terms \o kanji_terms ELSE kanji_terms
    /\ grammar_terms' = IF ty = "grammar" THEN terms \o grammar_terms ELSE grammar_terms

\* the three `extend` branches of extract_study_terms
ExtendProfile(ty, terms) ==
    /\ vocabulary_terms' = IF ty = "vocabulary" THEN vocabulary_terms \o terms
                           ELSE vocabulary_terms
    /\ kanji_terms' = IF ty = "kanji" THEN kanji_terms \o terms ELSE kanji_terms
    /\ grammar_terms' = IF ty = "grammar" THEN grammar_terms \o terms ELSE grammar_terms

\* `except Exception as e: ... return user_profile`
CaughtReturnProfile ==
    /\ pc' = "done"
    /\ result' = "profile"

ResetLocals ==
    /\ schedule_type' = "unknown"
    /\ all_terms' = << >>
    /\ total_pages' = 0
    /\ page' = 0

ReturnNone_clearing ==
    /\ pc' = "done"
    /\ result' = "None"
    /\ user_profile' = NoneValue

\* `return None`: the caller gets None, the profile object is left as it is
ReturnNone ==
    /\ pc' = "done"
    /\ result' = "None"
    /\ UNCHANGED user_profile

\* the schedule-list request and what follows it up to the loop
FetchSchedules ==
    /\ pc = "extract_study_terms"
    /\ \E mode \in ScheduleListModes :
        LET reply == ScheduleListReply(mode, [k \in 1..Len(service) |-> service[k].desc])
        IN  /\ http_log' = Append(http_log, Request("schedule", 0, 0, mode))
            /\ IF reply.err
               THEN CaughtReturnProfile /\ UNCHANGED << loop_vars, user_profile >>
               ELSE IF SchedulesStatusFailed(reply)
               THEN /\ ReturnNone
                    /\ UNCHANGED loop_vars
               ELSE /\ schedules' = _parse_schedules_response(reply)
                    /\ idx' = 1
                    /\ pc' = "loop"
                    /\ UNCHANGED << result, user_profile >>
    /\ UNCHANGED << inputs, locals, term_lists, returned, learning >>

\* `if not schedule_id: continue`
SkipSchedule ==
    /\ pc = "loop"
    /\ idx <= Len(schedules)
    /\ ~HasId(schedules[idx])
    /\ idx' = idx + 1
    /\ UNCHANGED << inputs, pc, schedules, locals, term_lists, user_profile, result,
                    http_log, returned, learning >>

\* one iteration of the loop up to the end of the first term-list request:
\* the whole iteration when the schedule has no further page
FetchFirstPage ==
    /\ pc = "loop"
    /\ idx <= Len(schedules)
    /\ HasId(schedules[idx])
    /\ \E mode \in TermListModes :
        LET reply == TermListReply(mode, PageTerms(idx, 1), 1, TotalPg(idx))
            o == FirstPage(reply)
        IN  /\ http_log' = Append(http_log, Request("list", idx, 1, mode))
            /\ CASE o.out = "raise" ->
                      /\ CaughtReturnProfile
                      /\ UNCHANGED << idx, locals, term_lists, returned >>
                 [] o.out = "return_list" ->
                      \* `schedule_type, schedule_terms = []` raises ValueError
                      /\ CaughtReturnProfile
                      /\ UNCHANGED << idx, locals, term_lists, returned >>
                 [] o.out = "return" ->
                      /\ ExtendProfile(o.type, o.terms)
                      /\ returned' = Append(returned,
                                        [sched |-> idx, type |-> o.type, terms |-> o.terms])
                      /\ idx' = idx + 1
                      /\ UNCHANGED << pc, result, locals >>
                 [] o.out = "pages" ->
                      /\ schedule_type' = o.type
                      /\ all_terms' = o.terms
                      /\ total_pages' = o.total_pages
                      /\ page' = 2
                      /\ pc' = "pages"
                      /\ UNCHANGED << idx, result, term_lists, returned >>
    /\ UNCHANGED << inputs, schedules, user_profile, learning >>

\* one iteration of `for page in range(2, total_pages + 1)`; after the last
\* page, the return to extract_study_terms and its extend
FetchPage ==
    /\ pc = "pages"
    /\ \E mode \in TermListModes :
        LET reply == TermListReply(mode, PageTerms(idx, page), page, TotalPg(idx))
            o == _fetch_terms_from_page(reply)
        IN  /\ http_log' = Append(http_log, Request("list", idx, page, mode))
            /\ IF o.out = "raise"
               THEN /\ CaughtReturnProfile
                    /\ UNCHANGED << idx, locals, term_lists, returned >>
               ELSE IF page < total_pages
               THEN /\ all_terms' = all_terms \o o.terms
                    /\ page' = page + 1
                    /\ UNCHANGED << pc, result, idx, schedule_type, total_pages,
                                    term_lists, returned >>
               ELSE /\ ExtendProfile(schedule_type, all_terms \o o.terms)
                    /\ returned' = Append(returned,
                                      [sched |-> idx, type |-> schedule_type,
                                       terms |-> all_terms \o o.terms])
                    /\ ResetLocals
                    /\ idx' = idx + 1
                    /\ pc' = "loop"
                    /\ UNCHANGED result
    /\ UNCHANGED << inputs, schedules, user_profile, learning >>

\* the loop is over: `return user_profile`
ReturnProfile ==
    /\ pc = "loop"
    /\ idx > Len(schedules)
    /\ pc' = "done"
    /\ result' = "profile"
    /\ UNCHANGED << inputs, loop_vars, locals, term_lists, user_profile, http_log,
                    returned, learning >>

---------------------------------------------------------------------------
(* A call of extract_study_terms(api_key, user_profile) with a profile     *)
(* as create_mock_user_profile gives it, its term lists empty.             *)

MockProfile ==
    [id |-> "1627619", real_name |-> "susuwatari",
     level_progress_percs |->
        [vocab |-> [n1 |-> 0, n2 |-> 1, n3 |-> 6, n4 |-> 31, n5 |-> 100]]]

Init ==
    /\ api_key \in Strings(KeyChars, MaxKeyLen)
    /\ service \in AllServices
    /\ pc = "extract_study_terms"
    /\ schedules = << >>
    /\ idx = 0
    /\ schedule_type = "unknown"
    /\ all_terms = << >>
    /\ total_pages = 0
    /\ page = 0
    /\ vocabulary_terms = << >>
    /\ kanji_terms = << >>
    /\ grammar_terms = << >>
    /\ user_profile = MockProfile
    /\ result = "pending"
    /\ http_log = << >>
    /\ returned = << >>
    /\ learning = NoneValue

Next ==
    \/ FetchSchedules
    \/ SkipSchedule
    \/ FetchFirstPage
    \/ FetchPage
    \/ ReturnProfile

Spec == Init /\ [][Next]_vars

---------------------------------------------------------------------------
(* What the claims speak of, read off the request log. *)

\* the term-list requests issued for the i-th schedule, in order
ListLog(i) == SelectSeq(http_log, LAMBDA r : r.endpoint = "list" /\ r.sched = i)
PagesRequested(i) == [n \in 1..Len(ListLog(i)) |-> ListLog(i)[n].page]
Requested(i) == ListLog(i) # << >>
FirstMode(i) == ListLog(i)[1].mode

IsPrefix(s, t) == Len(s) <= Len(t) /\ SubSeq(t, 1, Len(s)) = s

AllProfileTerms == vocabulary_terms \o kanji_terms \o grammar_terms

\* the n-th request was followed by the request for the next page of the same schedule
NextPageFetched(n) ==
    /\ n < Len(http_log)
    /\ http_log[n + 1] = [http_log[n] EXCEPT !.page = @ + 1, !.mode = http_log[n + 1].mode]

\* every schedule with an id after the i-th had its term list requested
LaterSchedulesRequested(i) ==
    \A j \in (i + 1)..Len(schedules) : HasId(schedules[j]) => Requested(j)

\* C1: when the first term-list request of schedule i returns a non-200
\* status, schedule i adds no record and every later schedule with an id
\* still has its term list requested: the loop over schedules goes on.
C1_FailedScheduleDoesNotEndLoop ==
    pc = "done" =>
        \A i \in 1..Len(schedules) :
            (Requested(i) /\ FirstMode(i) = "http500") =>
                /\ \A n \in DOMAIN returned : returned[n].sched = i => returned[n].terms = << >>
                /\ LaterSchedulesRequested(i)

\* C2: a network failure on a term-list request is local to that request:
\* the next page of the same schedule is fetched and the schedules after
\* it are still requested.
C2_NetworkErrorIsLocal ==
    pc = "done" =>
        \A n \in DOMAIN http_log :
            LET r == http_log[n]
            IN  (r.endpoint = "list" /\ r.mode = "neterr") =>
                    /\ (r.page >= 2 /\ r.page < TotalPg(r.sched)) => NextPageFetched(n)
                    /\ LaterSchedulesRequested(r.sched)

\* C3: every term of vocabulary_terms is a vocabulary record, of
\* kanji_terms a kanji record, of grammar_terms a grammar record.
C3_ListsHoldTheirCategory ==
    /\ \A n \in DOMAIN vocabulary_terms : vocabulary_terms[n].cls = "VocabularyTerm"
    /\ \A n \in DOMAIN kanji_terms : kanji_terms[n].cls = "KanjiTerm"
    /\ \A n \in DOMAIN grammar_terms : grammar_terms[n].cls = "GrammarTerm"

\* C4: a schedule whose first reply is a 200 without pagination metadata
\* has exactly one term-list request; one whose first reply carries pg and
\* total_pg = N > 1 has exactly the requests for pages 1, 2, ..., N, in
\* this order, whatever pages 2..N answer.
C4_PageRequestsComplete ==
    pc = "done" =>
        \A i \in 1..Len(schedules) :
            Requested(i) =>
                /\ FirstMode(i) \in { "flat", "contents_nometa", "badjson", "null", "array", "other" }
                      => PagesRequested(i) = << 1 >>
                /\ (FirstMode(i) = "contents" /\ TotalPg(i) > 1)
                      => PagesRequested(i) = [k \in 1..TotalPg(i) |-> k]

\* the replies of a page that is a failure: a non-200 status or a malformed body
FailedPageModes == { "http500", "badjson", "null", "array", "other" }

\* C5: a page k >= 2 that answers with a non-200 status or a malformed
\* body does not stop the fetch of page k+1 and leaves what the earlier
\* pages gave intact: the schedule returns, and its result starts with the
\* records of page 1; with one schedule of two pages, page 1 holding two
\* vocabulary records and page 2 answering non-200, the profile ends with
\* exactly 2 vocabulary terms and no kanji or grammar term.
C5_FailedPageIsSkipped ==
    pc = "done" =>
        /\ \A n \in DOMAIN http_log :
            LET r == http_log[n]
            IN  (r.endpoint = "list" /\ r.page >= 2 /\ r.mode \in FailedPageModes) =>
                    /\ r.page < TotalPg(r.sched) => NextPageFetched(n)
                    /\ \E m \in DOMAIN returned :
                          /\ returned[m].sched = r.sched
                          /\ IsPrefix(_process_terms_from_response(PageTerms(r.sched, 1)).terms,
                                      returned[m].terms)
        /\ ( /\ Len(schedules) = 1
             /\ HasId(schedules[1])
             /\ PagesOf(1) = << <<V1, V2>>, <<V3>> >>
             /\ Len(http_log) = 3
             /\ http_log[2].mode = "contents"
             /\ http_log[3].mode = "http500" )
           => ( /\ Len(vocabulary_terms) = 2
                /\ kanji_terms = << >>
                /\ grammar_terms = << >> )

C9_NoIdRecordsDropped ==
    \A n \in DOMAIN AllProfileTerms : AllProfileTerms[n].id # ""

\* C7: extract_study_terms called with an empty or blank credential
\* fails with AuthenticationError before any network call: no request is
\* ever issued.
C7_BlankKeyFailsFast ==
    (\A n \in DOMAIN api_key : api_key[n] \in Whitespace) =>
        /\ http_log = << >>
        /\ pc = "done" => result = "AuthenticationError"

---------------------------------------------------------------------------
(* extract_user_profile.                                                   *)

KeyMissing_nostrip(key) == key = << >>

\* `if not api_key or api_key.strip() == ""`
KeyMissing(key) == key = << >> \/ Strip(key) = << >>

ProfileModes ==
    { "neterr", "http401", "http500", "badjson", "null", "ok", "ok_partial", "ok_badtype" }

ProfileReply(mode) ==
    CASE mode = "neterr" -> NetworkError
      [] mode = "http401" -> Reply(401, [json |-> "invalid"])
      [] mode = "http500" -> Reply(500, [json |-> "invalid"])
      [] mode = "badjson" -> Reply(StatusOK, [json |-> "invalid"])
      [] mode = "null" -> Reply(StatusOK, [json |-> "null"])
      [] mode = "ok" ->
            Reply(StatusOK, Object([id |-> "1627619", real_name |-> "susuwatari",
                                    level_progress_percs |->
                                        [t |-> "dict", d |-> MockProfile.level_progress_percs]]))
      [] mode = "ok_partial" -> Reply(StatusOK, Object([id |-> "1627619"]))
      [] mode = "ok_badtype" ->
            Reply(StatusOK, Object([id |-> "1627619", real_name |-> "susuwatari",
                                    level_progress_percs |-> [t |-> "list"]]))

\* what extract_user_profile returns for a reply: the UserProfile, or
\* NoneValue (a status other than 200, a body that does not parse, a
\* field of the wrong type, any exception)
ProfileOf(reply) ==
    IF reply.err \/ reply.status # StatusOK \/ reply.body.json # "object"
    THEN NoneValue
    ELSE LET data == reply.body.obj
             lp == Get(data, "level_progress_percs", EmptyDict)
         IN  IF IsDict(lp)
             THEN [id |-> Get(data, "id", ""),
                   real_name |-> Get(data, "real_name", ""),
                   level_progress_percs |-> lp.d]
             ELSE NoneValue

\* a call of extract_user_profile(api_key): what it returns and requests
CallExtractUserProfile ==
    /\ IF KeyMissing(api_key)
       THEN /\ user_profile' = NoneValue
            /\ result' = "None"
            /\ UNCHANGED http_log
       ELSE \E mode \in ProfileModes :
            /\ http_log' = Append(http_log, Request("profile", 0, 0, mode))
            /\ user_profile' = ProfileOf(ProfileReply(mode))
            /\ result' = IF user_profile' = NoneValue THEN "None" ELSE "profile"
    /\ UNCHANGED << inputs, loop_vars, locals, term_lists, returned, learning >>

ExtractUserProfile ==
    /\ pc = "extract_user_profile"
    /\ pc' = "done"
    /\ CallExtractUserProfile

InitProfile ==
    /\ api_key \in Strings(KeyChars, MaxProfileKeyLen)
    /\ service = << >>
    /\ pc = "extract_user_profile"
    /\ schedules = << >>
    /\ idx = 0
    /\ schedule_type = "unknown"
    /\ all_terms = << >>
    /\ total_pages = 0
    /\ page = 0
    /\ vocabulary_terms = << >>
    /\ kanji_terms = << >>
    /\ grammar_terms = << >>
    /\ user_profile = NoneValue
    /\ result = "pending"
    /\ http_log = << >>
    /\ returned = << >>
    /\ learning = NoneValue

NextProfile == ExtractUserProfile

SpecProfile == InitProfile /\ [][NextProfile]_vars

\* an empty or whitespace-only credential
IsBlank(key) == \A n \in DOMAIN key : key[n] \in Whitespace

---------------------------------------------------------------------------
(* extract_user_learning_data (main.py).                                   *)

JlptThreshold == 30
MasteryThreshold == 50

\* A mastery_avg_perc value: None, an int, or a string (its characters).
NoneMastery == [k |-> "none"]
IntMastery(n) == [k |-> "int", v |-> n]
StrMastery(s) == [k |-> "str", v |-> s]

Digits == { "0", "1", "2", "3", "4", "5", "6", "7", "8", "9" }
DigitValue(c) ==
    CASE c = "0" -> 0 [] c = "1" -> 1 [] c = "2" -> 2 [] c = "3" -> 3 [] c = "4" -> 4
      [] c = "5" -> 5 [] c = "6" -> 6 [] c = "7" -> 7 [] c = "8" -> 8 [] c = "9" -> 9

RECURSIVE RStripPercent(_)
\* str.rstrip('%')
RStripPercent(s) ==
    IF s # << >> /\ s[Len(s)] = "%" THEN RStripPercent(SubSeq(s, 1, Len(s) - 1)) ELSE s

RECURSIVE Decimal(_)
Decimal(s) == IF s = << >> THEN 0 ELSE 10 * Decimal(SubSeq(s, 1, Len(s) - 1)) + DigitValue(s[Len(s)])

\* float(s) for a string of digits and other characters: float ignores
\* surrounding whitespace; anything but digits raises ValueError
Float(s) ==
    LET t == Strip(s)
    IN  IF t # << >> /\ \A n \in DOMAIN t : t[n] \in Digits
        THEN [ok |-> TRUE, value |-> Decimal(t)]
        ELSE [ok |-> FALSE, value |-> 0]

\* `float(str(raw).strip().rstrip('%')) if raw is not None else 0.0`, with
\* `except (ValueError, TypeError): mastery = 0.0`
ParseMastery(raw) ==
    IF raw.k = "none" THEN 0
    ELSE IF raw.k = "int" THEN raw.v
    ELSE LET f == Float(RStripPercent(Strip(raw.v)))
         IN  IF f.ok THEN f.value ELSE 0

IsMastered_strict(mastery) == mastery > MasteryThreshold

\* `if mastery >= 50`
IsMastered(mastery) == mastery >= MasteryThreshold

\* f"{term.kanji_full} ({term.hiragana_full})": the two parts of the entry
VocabEntry(term) == << term.kanji_full, term.hiragana_full >>

RECURSIVE MasteredVocab(_)
\* the loop `for term in user_profile.vocabulary_terms`, its appends in order
MasteredVocab(terms) ==
    IF terms = << >> THEN << >>
    ELSE LET term == Head(terms)
             raw == Get(term.user_data.d, "mastery_avg_perc", IntMastery(0))
         IN  (IF IsMastered(ParseMastery(raw)) THEN << VocabEntry(term) >> ELSE << >>)
             \o MasteredVocab(Tail(terms))

LevelKeys == << "n1", "n2", "n3", "n4", "n5" >>
LevelNames == << "N1", "N2", "N3", "N4", "N5" >>

ReachesThreshold_strict(progress) == progress > JlptThreshold

\* `if vocab_progress.get(level_key, 0) >= 30`
ReachesThreshold(progress) == progress >= JlptThreshold

RECURSIVE JlptFrom(_, _)
\* the loop `for level in range(1, 6)` from `level` on
JlptFrom(level_progress_percs, level) ==
    IF level > 5 THEN "N5"
    ELSE LET vocab_progress == Get(level_progress_percs, "vocab", << >>)
         IN  IF ReachesThreshold(Get(vocab_progress, LevelKeys[level], 0))
             THEN LevelNames[level]
             ELSE JlptFrom(level_progress_percs, level + 1)

ExtractUserLearningData ==
    /\ pc = "extract_user_learning_data"
    /\ pc' = "done"
    /\ LET mastered_vocab == MasteredVocab(vocabulary_terms)
       IN  learning' = [jlpt_level |-> JlptFrom(user_profile.level_progress_percs, 1),
                        vocabulary_string |-> mastered_vocab,
                        vocab_count |-> Len(mastered_vocab)]
    /\ UNCHANGED << inputs, loop_vars, locals, term_lists, user_profile, result,
                    http_log, returned >>

\* the mastery values the vocabulary terms carry
MasterySamples ==
    { IntMastery(49), IntMastery(50), NoneMastery,
      StrMastery(<< "4", "4" >>), StrMastery(<< "5", "0", "%" >>),
      StrMastery(<< " ", "7", "8" >>), StrMastery(<< "x" >>) }

LearnTerms ==
    { _create_vocabulary_term([id |-> r.id, kanji_full |-> r.kanji_full,
                               hiragana_full |-> r.hiragana_full, user_data |-> ud]) :
        r \in { V1, V2 },
        ud \in { UserData(m) : m \in MasterySamples } \cup { EmptyDict } }

LevelProgressSamples ==
    { MockProfile.level_progress_percs,
      [vocab |-> [n1 |-> 0, n2 |-> 40, n3 |-> 6, n4 |-> 31, n5 |-> 100]],
      [vocab |-> [n1 |-> 0, n2 |-> 0, n3 |-> 0, n4 |-> 29, n5 |-> 0]],
      [kanji |-> [n1 |-> 100, n2 |-> 100, n3 |-> 100, n4 |-> 100, n5 |-> 100]],
      [vocab |-> [n3 |-> 30, n5 |-> 29]] }

InitLearning ==
    /\ api_key = << "k" >>
    /\ service = << >>
    /\ pc = "extract_user_learning_data"
    /\ schedules = << >>
    /\ idx = 0
    /\ schedule_type = "unknown"
    /\ all_terms = << >>
    /\ total_pages = 0
    /\ page = 0
    /\ vocabulary_terms \in UNION { [1..n -> LearnTerms] : n \in 0..MaxVocab }
    /\ kanji_terms = << >>
    /\ grammar_terms = << >>
    /\ user_profile \in { [MockProfile EXCEPT !.level_progress_percs = lp] :
                            lp \in LevelProgressSamples }
    /\ result = "profile"
    /\ http_log = << >>
    /\ returned = << >>
    /\ learning = NoneValue

NextLearning == ExtractUserLearningData

SpecLearning == InitLearning /\ [][NextLearning]_vars

\* the mastery percentage of a term, as the code parses it
MasteryOf(term) == ParseMastery(Get(term.user_data.d, "mastery_avg_perc", IntMastery(0)))

\* the positions of vocabulary_terms that hold a term with mastery >= 50
MasteredPositions == { n \in DOMAIN vocabulary_terms : MasteryOf(vocabulary_terms[n]) >= 50 }

\* C10, amended: the display list holds one entry per vocabulary term
\* whose parsed mastery is >= 50, in the order of vocabulary_terms, an
\* entry twice when two such terms render alike; the count is the number
\* of these terms.
C10_OneEntryPerMasteredTerm ==
    pc = "done" =>
        LET out == learning.vocabulary_string
        IN  /\ Len(out) = Cardinality(MasteredPositions)
            /\ learning.vocab_count = Cardinality(MasteredPositions)
            /\ \A n \in MasteredPositions :
                  out[Cardinality({ m \in MasteredPositions : m <= n })]
                      = VocabEntry(vocabulary_terms[n])

\* C10, as stated: as above, and the display list is deduplicated: no
\* entry occurs twice.
C10_DisplayListDeduplicated ==
    pc = "done" =>
        LET out == learning.vocabulary_string
        IN  /\ \A n \in MasteredPositions : \E m \in DOMAIN out : out[m] = VocabEntry(vocabulary_terms[n])
            /\ \A m \in DOMAIN out : \E n \in MasteredPositions : out[m] = VocabEntry(vocabulary_terms[n])
            /\ \A m1, m2 \in DOMAIN out : out[m1] = out[m2] => m1 = m2

C10_Witness ==
    /\ pc = "done"
    /\ Len(vocabulary_terms) = 3
    /\ MasteredPositions = { 1, 3 }
    /\ VocabEntry(vocabulary_terms[1]) = VocabEntry(vocabulary_terms[3])
    /\ vocabulary_terms[1] # vocabulary_terms[3]
    /\ Len(learning.vocabulary_string) = 2

\* the vocab-domain progress of tier k, 0 where the profile gives none
VocabProgress(k) ==
    LET lp == user_profile.level_progress_percs
    IN  IF "vocab" \in DOMAIN lp /\ LevelKeys[k] \in DOMAIN lp.vocab
        THEN lp.vocab[LevelKeys[k]] ELSE 0

QualifyingTiers == { k \in 1..5 : VocabProgress(k) >= 30 }

---------------------------------------------------------------------------
(* Further properties of extract_study_terms.                              *)

\* a raw record carries one of the three marker-field pairs
HasMarkers(rec) ==
    \/ "kanji" \in DOMAIN rec /\ "onyomi" \in DOMAIN rec
    \/ "kanji_full" \in DOMAIN rec /\ "hiragana_full" \in DOMAIN rec
    \/ "title_japanese" \in DOMAIN rec /\ "url" \in DOMAIN rec

\* the first record of the i-th schedule matches no marker-field pair
FirstRecordUnknown(i) == PageTerms(i, 1) # << >> /\ ~HasMarkers(PageTerms(i, 1)[1])

\* what the schedules that returned with type ty gave, in order
ReturnedOfType(ty) ==
    Concat([m \in DOMAIN returned |->
                IF returned[m].type = ty THEN returned[m].terms ELSE << >>])

\* the first schedule with an id after the i-th had its term list requested
NextScheduleRequested(i) ==
    \A j \in (i + 1)..Len(schedules) :
        (HasId(schedules[j]) /\ \A h \in (i + 1)..(j - 1) : ~HasId(schedules[h]))
            => Requested(j)

ContentsModes == { "contents", "contents_nometa", "contents_nopg" }
EnvelopeModes == ContentsModes \cup { "flat" }

\* what the n-th term-list request of schedule i is to contribute
Contribution(i, n, modes) ==
    LET r == ListLog(i)[n]
    IN  IF r.mode \in modes
        THEN _process_terms_from_response(PageTerms(i, r.page)).terms
        ELSE << >>

\* C13: on every term-list request, page 1 and pages 2..N alike, a 200
\* reply with its records under contents.terms and one with them under
\* top-level terms both contribute their records, and any other reply
\* contributes none: what a schedule returns is the concatenation, over
\* its requests, of the records of the replies in one of the two envelopes.
C13_BothEnvelopesOnEveryPage ==
    \A m \in DOMAIN returned :
        LET i == returned[m].sched
        IN  returned[m].terms
              = Concat([n \in DOMAIN ListLog(i) |-> Contribution(i, n, EnvelopeModes)])

\* the construction of a typed term fails for this record
ConstructionFails(rec) == "user_data" \in DOMAIN rec /\ rec.user_data.t # "dict"

\* the ids of a sequence of raw records or of typed terms
Ids(seq) == [n \in DOMAIN seq |-> Get(seq[n], "id", "")]

\* the replies whose records the code reads, on page 1 and on pages 2..N
ReadModes(pg) == IF pg = 1 THEN EnvelopeModes ELSE ContentsModes

\* the ids the n-th request of schedule i is to give when a failing record
\* costs that record alone
KeptIds(i, n) ==
    LET r == ListLog(i)[n]
        recs == PageTerms(i, r.page)
    IN  IF r.mode \in ReadModes(r.page) /\ recs # << >> /\ HasMarkers(recs[1])
        THEN Ids(SelectSeq(recs, LAMBDA rec : ~ConstructionFails(rec)))
        ELSE << >>

\* the i-th schedule holds a record whose construction fails
HoldsFailingRecord(i) ==
    \E k \in 1..TotalPg(i) : \E n \in DOMAIN PageTerms(i, k) :
        ConstructionFails(PageTerms(i, k)[n])

\* no request of the i-th schedule was answered in a way that raises
NoRaise(i) ==
    /\ \A n \in DOMAIN ListLog(i) : ListLog(i)[n].mode \notin { "neterr", "null" }
    /\ FirstMode(i) \notin { "http500", "contents_nopg" }

\* C14: when the construction of a term fails for one record of a page,
\* that record alone is dropped: the schedule returns, and what it returns
\* is, page by page, every other record of the page in its original order.
C14_OnlyTheFailingRecordDropped ==
    /\ \A m \in DOMAIN returned :
          LET i == returned[m].sched
          IN  Ids(returned[m].terms) = Concat([n \in DOMAIN ListLog(i) |-> KeptIds(i, n)])
    /\ pc = "done" =>
          \A i \in 1..Len(schedules) :
              (Requested(i) /\ HoldsFailingRecord(i) /\ NoRaise(i)
                    /\ Len(ListLog(i)) = TotalPg(i))
                  => \E m \in DOMAIN returned : returned[m].sched = i

C14_Witness ==
    /\ pc = "done"
    /\ Len(returned) = 2
    /\ PagesOf(1) = << <<V1, VBad, V2>> >>
    /\ Ids(returned[1].terms) = << "v1", "v2" >>
    /\ PagesOf(2) = << <<V1>>, <<VBad, V2>> >>
    /\ Ids(returned[2].terms) = << "v1", "v2" >>
    /\ Ids(vocabulary_terms) = << "v1", "v2", "v1", "v2" >>

---------------------------------------------------------------------------
(* extract_study_terms over longer schedule lists: a call with a service   *)
(* of up to MaxLoopSchedules schedules drawn from a smaller catalog, and   *)
(* with a profile as extract_user_profile builds it (term lists empty) or  *)
(* as create_mock_user_profile gives it (one term in each list).           *)

MaxLoopSchedules == 3

LoopCatalog ==
    { << <<V1, V2>>, <<V3>> >>,
      << <<K1>> >> }

LoopSchedules(k) ==
    { [desc |-> [id |-> ScheduleIds[k], name |-> "n"], pages |-> ps] : ps \in LoopCatalog }
    \cup { [desc |-> [name |-> "n"], pages |-> << <<V1>> >>] }

RECURSIVE LoopServices(_)
LoopServices(n) ==
    IF n = 0 THEN { << >> }
    ELSE { Append(s, e) : s \in LoopServices(n - 1), e \in LoopSchedules(n) }

\* the fields of a profile that extract_study_terms is given, and its lists
FetchedProfile == ProfileOf(ProfileReply("ok"))
PartialProfile == ProfileOf(ProfileReply("ok_partial"))

MockVocabularyTerms ==
    << _create_vocabulary_term([id |-> "280", kanji_full |-> "kf280",
                                hiragana_full |-> "hf280",
                                user_data |-> UserData(StrMastery(<< "4", "4" >>))]) >>
MockKanjiTerms ==
    << _create_kanji_term([id |-> "2160", kanji |-> "kj2160", onyomi |-> "on2160",
                           user_data |-> UserData(StrMastery(<< "7", "8" >>))]) >>
MockGrammarTerms ==
    << _create_grammar_term([id |-> "539", title_japanese |-> "tj539", url |-> "url539",
                             user_data |-> UserData(StrMastery(<< "6", "5" >>))]) >>

GivenProfiles ==
    { [fields |-> FetchedProfile, v |-> << >>, k |-> << >>, g |-> << >>],
      [fields |-> PartialProfile, v |-> << >>, k |-> << >>, g |-> << >>],
      [fields |-> MockProfile, v |-> MockVocabularyTerms, k |-> MockKanjiTerms,
       g |-> MockGrammarTerms] }

InitLoop ==
    /\ api_key = << "k" >>
    /\ service \in UNION { LoopServices(n) : n \in 0..MaxLoopSchedules }
    /\ pc = "extract_study_terms"
    /\ schedules = << >>
    /\ idx = 0
    /\ schedule_type = "unknown"
    /\ all_terms = << >>
    /\ total_pages = 0
    /\ page = 0
    /\ \E given \in GivenProfiles :
          /\ user_profile = given.fields
          /\ vocabulary_terms = given.v
          /\ kanji_terms = given.k
          /\ grammar_terms = given.g
    /\ result = "pending"
    /\ http_log = << >>
    /\ returned = << >>
    /\ learning = NoneValue

SpecLoop == InitLoop /\ [][Next]_vars

\* the schedules of the term-list requests, in the order of the requests
RequestedSchedules ==
    LET lists == SelectSeq(http_log, LAMBDA r : r.endpoint = "list")
    IN  [n \in DOMAIN lists |-> lists[n].sched]

\* a descriptor of the schedule list that carries no id
LacksId(desc) == "id" \notin DOMAIN desc

\* C15: a schedule descriptor without an id never has a term-list request
\* issued for it and does not end the loop: once the loop is past it, the
\* first descriptor with an id after it has had its term list requested;
\* the requests follow the order of the schedule list.
C15_NoIdScheduleSkipped ==
    /\ \A i \in 1..Len(schedules) : LacksId(schedules[i]) => ~Requested(i)
    /\ \A n \in 1..(Len(RequestedSchedules) - 1) :
          RequestedSchedules[n] <= RequestedSchedules[n + 1]
    /\ pc = "done" =>
          \A i \in 1..Len(schedules) :
              (LacksId(schedules[i]) /\ idx > i) => NextScheduleRequested(i)

\* a descriptor without an id between two with an id, both processed
C15_Witness ==
    /\ pc = "done"
    /\ result = "profile"
    /\ Len(schedules) = 3
    /\ ~LacksId(schedules[1])
    /\ LacksId(schedules[2])
    /\ ~LacksId(schedules[3])
    /\ idx = 4
    /\ Len(returned) = 2
    /\ returned[1].sched = 1
    /\ returned[2].sched = 3
    /\ returned[2].terms # << >>

\* the malformed 200 replies to a term-list call: a body that is not valid
\* JSON, JSON that is not an object, a contents envelope with total_pg but
\* without pg
MalformedModes == { "badjson", "null", "array", "contents_nopg" }

\* C16: a malformed 200 reply to a term-list call is scoped to that call:
\* it does not propagate out of the schedule, so the schedule returns and
\* the first schedule with an id after it has its term list requested.
C16_MalformedReplyIsLocal ==
    pc = "done" =>
        \A n \in DOMAIN http_log :
            LET r == http_log[n]
            IN  (r.endpoint = "list" /\ r.mode \in MalformedModes
                    /\ (r.mode = "contents_nopg" => r.page = 1)) =>
                    /\ result = "profile"
                    /\ NextScheduleRequested(r.sched)

\* the terms a list held at the call: those of the mock profile, or none
GivenTerms(list, mock) == IF IsPrefix(mock, list) THEN mock ELSE << >>

\* the ids of the records of type ty in discovery order: schedules in
\* schedule-list order, within a schedule its requests in the order of the
\* pages, within a page the records in response order
DiscoveryOrder(ty) ==
    Concat([i \in 1..Len(schedules) |->
              IF \E m \in DOMAIN returned : returned[m].sched = i /\ returned[m].type = ty
              THEN Concat([n \in DOMAIN ListLog(i) |-> KeptIds(i, n)])
              ELSE << >>])

InDiscoveryOrder(list, mock, ty) ==
    Ids(list) = Ids(GivenTerms(list, mock)) \o DiscoveryOrder(ty)

\* C17: during extract_study_terms each of the three term lists is
\* append-only: in every step the earlier value of the list is a prefix of
\* the later one; and each list holds, after the terms it was given, the
\* records in discovery order, the pages of a schedule being requested in
\* increasing page number.
C17_AppendOnlyInDiscoveryOrder ==
    /\ [][ /\ IsPrefix(vocabulary_terms, vocabulary_terms')
            /\ IsPrefix(kanji_terms, kanji_terms')
            /\ IsPrefix(grammar_terms, grammar_terms') ]_vars
    /\ [](/\ InDiscoveryOrder(vocabulary_terms, MockVocabularyTerms, "vocabulary")
           /\ InDiscoveryOrder(kanji_terms, MockKanjiTerms, "kanji")
           /\ InDiscoveryOrder(grammar_terms, MockGrammarTerms, "grammar")
           /\ \A i \in 1..Len(schedules) :
                 PagesRequested(i) = [k \in 1..Len(ListLog(i)) |-> k])

C17_Witness ==
    /\ pc = "done"
    /\ Len(returned) = 3
    /\ Ids(vocabulary_terms) = << "280", "v1", "v2", "v3", "v1", "v2", "v3" >>
    /\ Ids(kanji_terms) = << "2160", "k1" >>
    /\ grammar_terms = MockGrammarTerms

\* the ids of the records of the fetched pages of the m-th returned
\* schedule that normalize; none for a schedule of unknown type
FetchedIds(m) ==
    LET i == returned[m].sched
    IN  IF FirstRecordUnknown(i) THEN << >>
        ELSE Concat([n \in DOMAIN ListLog(i) |-> KeptIds(i, n)])

\* C18: every record of every fetched page 1..N of a returned schedule
\* that normalizes reaches the profile, also the records of pages 2..N of
\* a schedule whose page 1 was a 200 reply with zero records: the profile
\* holds as many terms as the fetched pages gave.
C18_EveryFetchedRecordReachesProfile ==
    Len(AllProfileTerms) = Len(Concat([m \in DOMAIN returned |-> FetchedIds(m)]))

\* the value of field f of a profile: << value >>, or << >> when there is none
FieldOf(profile, f) == IF f \in DOMAIN profile THEN << profile[f] >> ELSE << >>

\* C19: extract_study_terms never writes id, real_name or
\* level_progress_percs: in every step, on success and on every failure
\* path, the three fields of the profile keep the values they had.
C19_ProfileFieldsUntouched ==
    [][ \A f \in { "id", "real_name", "level_progress_percs" } :
            FieldOf(user_profile', f) = FieldOf(user_profile, f) ]_vars

\* the schedule-list request failed and None was returned
C19_Witness ==
    /\ pc = "done"
    /\ result = "None"
    /\ http_log # << >>
    /\ http_log[1].mode = "http401"
    /\ user_profile = PartialProfile
    /\ user_profile.level_progress_percs = << >>

---------------------------------------------------------------------------
(* main (main.py), from the profile request on.  api_key is the credential *)
(* main reads from the configuration.  main's local user_profile is the    *)
(* value the last call returned: None when result = "None".  The story     *)
(* generation catches its own errors and is not modelled further.          *)

MaxMainSchedules == 2

\* `user_profile = extract_user_profile(config.RENSHUU_API_KEY)` and
\* `if user_profile:`
MainExtractUserProfile ==
    /\ pc = "main"
    /\ CallExtractUserProfile
    /\ pc' = IF user_profile' # NoneValue THEN "extract_study_terms" ELSE "mock"

\* the else branch: `user_profile = create_mock_user_profile()`
MainMockProfile ==
    /\ pc = "mock"
    /\ user_profile' = MockProfile
    /\ vocabulary_terms' = MockVocabularyTerms
    /\ kanji_terms' = MockKanjiTerms
    /\ grammar_terms' = MockGrammarTerms
    /\ result' = "profile"
    /\ pc' = "extract_user_learning_data"
    /\ UNCHANGED << inputs, loop_vars, locals, http_log, returned, learning >>

\* extract_study_terms has returned: `len(user_profile.vocabulary_terms)`
\* and the lines up to the call of extract_user_learning_data; on None
\* the attribute access raises AttributeError, which nothing catches
MainReadTermLists ==
    /\ pc = "done"
    /\ learning = NoneValue
    /\ pc' = IF result = "None" THEN "crashed" ELSE "extract_user_learning_data"
    /\ UNCHANGED << inputs, loop_vars, locals, term_lists, user_profile, result,
                    http_log, returned, learning >>

\* extract_user_learning_data has returned: the story or the message that
\* there is no mastered vocabulary, and the end of main
MainFinish ==
    /\ pc = "done"
    /\ learning # NoneValue
    /\ pc' = "exit"
    /\ UNCHANGED << inputs, loop_vars, locals, term_lists, user_profile, result,
                    http_log, returned, learning >>

InitMain ==
    /\ api_key \in Strings(KeyChars, MaxKeyLen)
    /\ service \in UNION { LoopServices(n) : n \in 0..MaxMainSchedules }
    /\ pc = "main"
    /\ schedules = << >>
    /\ idx = 0
    /\ schedule_type = "unknown"
    /\ all_terms = << >>
    /\ total_pages = 0
    /\ page = 0
    /\ vocabulary_terms = << >>
    /\ kanji_terms = << >>
    /\ grammar_terms = << >>
    /\ user_profile = NoneValue
    /\ result = "pending"
    /\ http_log = << >>
    /\ returned = << >>
    /\ learning = NoneValue

NextMain ==
    \/ MainExtractUserProfile
    \/ MainMockProfile
    \/ FetchSchedules
    \/ SkipSchedule
    \/ FetchFirstPage
    \/ FetchPage
    \/ ReturnProfile
    \/ MainReadTermLists
    \/ ExtractUserLearningData
    \/ MainFinish

SpecMain == InitMain /\ [][NextMain]_vars

\* C20: main never uses a missing profile: whatever extract_study_terms
\* returns, a failed schedule-list request included, main reads the term
\* lists and derives the proficiency summary from an actual UserProfile
\* only, and it does not end in an unhandled error.
C20_MainNeverUsesMissingProfile ==
    /\ pc # "crashed"
    /\ pc \in { "extract_user_learning_data", "exit" } =>
          (result = "profile" /\ user_profile # NoneValue)

===========================================================================
